---- MODULE Spec2Model ----
(***************************************************************************)
(* Model of the Terraform entity / dependency-graph extractor              *)
(* (apps/hello-world/backend/parser.py) and of the parse_terraform helper  *)
(* of the web service (apps/tf-visualizer/backend/api.py).                 *)
(*                                                                         *)
(* Python strings are sequences of one-character strings, so that the      *)
(* regular expressions, str.replace, str.split and the f-strings of the    *)
(* parser are computed character by character.  A Python dict is a         *)
(* sequence of entries with distinct keys, in insertion order.  A Value of  *)
(* a block body is a tagged record (Str, Num, Bool, List, Map below); all  *)
(* the tags carry the same fields so that any two Values can be compared.  *)
(***************************************************************************)
EXTENDS Integers, Sequences, FiniteSets, TLC

\* ------------------------------------------------------------------------
\* Bounds of the model
\* ------------------------------------------------------------------------
MaxFiles == 2
\* the longest TF_SCAN_PATHS list
MaxScanPaths == 2

MaxCalls == 2

\* ------------------------------------------------------------------------
\* Strings
\* ------------------------------------------------------------------------
Letters ==
  {"a","b","c","d","e","f","g","h","i","j","k","l","m",
   "n","o","p","q","r","s","t","u","v","w","x","y","z",
   "A","B","C","D","E","F","G","H","I","J","K","L","M",
   "N","O","P","Q","R","S","T","U","V","W","X","Y","Z"}

Digits == {"0","1","2","3","4","5","6","7","8","9"}

\* the class \w of Python's re
IsWord(c) == c \in Letters \cup Digits \cup {"_"}

Dot == <<".">>

sResource == <<"r","e","s","o","u","r","c","e">>
sData == <<"d","a","t","a">>
sModule == <<"m","o","d","u","l","e">>
sVar == <<"v","a","r">>
sVariable == <<"v","a","r","i","a","b","l","e">>
sLocal == <<"l","o","c","a","l">>
sOutput == <<"o","u","t","p","u","t">>
sProvider == <<"p","r","o","v","i","d","e","r">>
sDependsOn == <<"d","e","p","e","n","d","s","_","o","n">>
sAws == <<"a","w","s","_">>
sAzurerm == <<"a","z","u","r","e","r","m","_">>
sGoogle == <<"g","o","o","g","l","e","_">>

\* text[i:].startswith(lit), 1-based
HasLit(t, i, lit) ==
  /\ i >= 1
  /\ i + Len(lit) - 1 <= Len(t)
  /\ SubSeq(t, i, i + Len(lit) - 1) = lit

\* str.replace(lit, ""): the occurrences are removed left to right
RECURSIVE RemoveAll(_, _)
RemoveAll(t, lit) ==
  IF t = <<>> THEN <<>>
  ELSE IF HasLit(t, 1, lit)
       THEN RemoveAll(SubSeq(t, Len(lit) + 1, Len(t)), lit)
       ELSE <<Head(t)>> \o RemoveAll(Tail(t), lit)

\* text.replace("${", "").replace("}", "")
StripInterpolation(text) == RemoveAll(RemoveAll(text, <<"$","{">>), <<"}">>)

\* str.split("_")[0]
RECURSIVE FirstToken(_)
FirstToken(t) ==
  IF t = <<>> \/ Head(t) = "_" THEN <<>>
  ELSE <<Head(t)>> \o FirstToken(Tail(t))

\* the position after the longest run of \w that starts at i
RECURSIVE WordRunEnd(_, _)
WordRunEnd(t, i) ==
  IF i <= Len(t) /\ IsWord(t[i]) THEN WordRunEnd(t, i + 1) ELSE i

\* ------------------------------------------------------------------------
\* list(set(xs)): the elements of xs without duplicates, in an order that
\* is fixed for one interpreter process (the string hash seed) and differs
\* between processes.  Two orders stand for the possible ones.
\* ------------------------------------------------------------------------
RECURSIVE Dedup(_)
Dedup(xs) ==
  IF xs = <<>> THEN <<>>
  ELSE LET r == Dedup(SubSeq(xs, 1, Len(xs) - 1))
           x == xs[Len(xs)]
       IN IF \E i \in 1..Len(r) : r[i] = x THEN r ELSE Append(r, x)

Reverse(xs) == [i \in 1..Len(xs) |-> xs[Len(xs) + 1 - i]]

ListSet(xs, seed) == IF seed = 0 THEN Dedup(xs) ELSE Reverse(Dedup(xs))

Range(xs) == {xs[i] : i \in 1..Len(xs)}

\* the patterns list without the three vendor shorthand patterns
patternsExplicitOnly ==
  << [lit |-> sResource \o Dot, inGroup |-> FALSE, parts |-> 2, prefix |-> sResource],
     [lit |-> sData \o Dot, inGroup |-> FALSE, parts |-> 2, prefix |-> sData],
     [lit |-> sModule \o Dot, inGroup |-> FALSE, parts |-> 1, prefix |-> sModule],
     [lit |-> sVar \o Dot, inGroup |-> FALSE, parts |-> 1, prefix |-> sVar],
     [lit |-> sLocal \o Dot, inGroup |-> FALSE, parts |-> 1, prefix |-> sLocal],
     [lit |-> sOutput \o Dot, inGroup |-> FALSE, parts |-> 1, prefix |-> sOutput] >>

\* ------------------------------------------------------------------------
\* _find_references
\* ------------------------------------------------------------------------
\* The patterns list.  lit is the literal head of the regular expression,
\* inGroup tells whether that head lies inside the first group, parts is
\* the number of groups.
patterns ==
  << [lit |-> sAws, inGroup |-> TRUE, parts |-> 2, prefix |-> sResource],
     [lit |-> sAzurerm, inGroup |-> TRUE, parts |-> 2, prefix |-> sResource],
     [lit |-> sGoogle, inGroup |-> TRUE, parts |-> 2, prefix |-> sResource],
     [lit |-> sResource \o Dot, inGroup |-> FALSE, parts |-> 2, prefix |-> sResource],
     [lit |-> sData \o Dot, inGroup |-> FALSE, parts |-> 2, prefix |-> sData],
     [lit |-> sModule \o Dot, inGroup |-> FALSE, parts |-> 1, prefix |-> sModule],
     [lit |-> sVar \o Dot, inGroup |-> FALSE, parts |-> 1, prefix |-> sVar],
     [lit |-> sLocal \o Dot, inGroup |-> FALSE, parts |-> 1, prefix |-> sLocal],
     [lit |-> sOutput \o Dot, inGroup |-> FALSE, parts |-> 1, prefix |-> sOutput] >>

NoMatch == [ok |-> FALSE, end |-> 0, groups |-> <<>>]

\* one attempt of the regular expression p at position i of t
MatchAt(t, i, p) ==
  IF ~HasLit(t, i, p.lit) THEN NoMatch
  ELSE LET a == i + Len(p.lit)
           e1 == WordRunEnd(t, a)
           g1 == SubSeq(t, IF p.inGroup THEN i ELSE a, e1 - 1)
       IN IF e1 = a THEN NoMatch
          ELSE IF p.parts = 1
               THEN [ok |-> TRUE, end |-> e1, groups |-> <<g1>>]
               ELSE IF ~(e1 <= Len(t) /\ t[e1] = ".") THEN NoMatch
                    ELSE LET e2 == WordRunEnd(t, e1 + 1)
                         IN IF e2 = e1 + 1 THEN NoMatch
                            ELSE [ok |-> TRUE, end |-> e2,
                                  groups |-> <<g1, SubSeq(t, e1 + 1, e2 - 1)>>]

\* re.findall(pattern, text): leftmost non-overlapping matches from i on
RECURSIVE FindAll(_, _, _)
FindAll(t, i, p) ==
  IF i > Len(t) THEN <<>>
  ELSE LET m == MatchAt(t, i, p)
       IN IF m.ok THEN <<m.groups>> \o FindAll(t, m.end, p)
          ELSE FindAll(t, i + 1, p)

\* the f-string built for one match
RefOf(p, groups) ==
  IF Len(groups) = 2
  THEN p.prefix \o Dot \o groups[1] \o Dot \o groups[2]
  ELSE p.prefix \o Dot \o groups[1]

RECURSIVE RefsOfMatches(_, _)
RefsOfMatches(p, ms) ==
  IF ms = <<>> THEN <<>>
  ELSE <<RefOf(p, Head(ms))>> \o RefsOfMatches(p, Tail(ms))

RECURSIVE RefsFrom(_, _)
RefsFrom(t, k) ==
  IF k > Len(patterns) THEN <<>>
  ELSE RefsOfMatches(patterns[k], FindAll(t, 1, patterns[k])) \o RefsFrom(t, k + 1)

FindReferences(text, seed) == ListSet(RefsFrom(StripInterpolation(text), 1), seed)

\* ------------------------------------------------------------------------
\* Values of a block body (what the HCL loader hands to the parser)
\* ------------------------------------------------------------------------
Str(s) == [tag |-> "str", s |-> s, n |-> 0, b |-> FALSE, items |-> <<>>, entries |-> <<>>]
Num(n) == [tag |-> "num", s |-> <<>>, n |-> n, b |-> FALSE, items |-> <<>>, entries |-> <<>>]
Bool(b) == [tag |-> "bool", s |-> <<>>, n |-> 0, b |-> b, items |-> <<>>, entries |-> <<>>]
List(items) == [tag |-> "list", s |-> <<>>, n |-> 0, b |-> FALSE, items |-> items, entries |-> <<>>]
Map(entries) == [tag |-> "map", s |-> <<>>, n |-> 0, b |-> FALSE, items |-> <<>>, entries |-> entries]
KV(k, v) == [k |-> k, v |-> v]

\* key in d, d[key]
HasKey(entries, key) == \E i \in 1..Len(entries) : entries[i].k = key
GetKey(entries, key) == entries[CHOOSE i \in 1..Len(entries) : entries[i].k = key].v

\* ------------------------------------------------------------------------
\* _extract_dependencies
\* ------------------------------------------------------------------------
Raised == [err |-> TRUE, deps |-> <<>>]
Found(deps) == [err |-> FALSE, deps |-> deps]

RECURSIVE StrItems(_)
StrItems(items) ==
  IF items = <<>> THEN <<>>
  ELSE (IF Head(items).tag = "str" THEN <<Head(items).s>> ELSE <<>>)
       \o StrItems(Tail(items))

\* for dep in config["depends_on"]: if isinstance(dep, str): deps.append(dep)
\* A list yields its string items, a string its characters, a dict its
\* keys; a number or a boolean is not iterable.
ExplicitDeps(entries) ==
  IF ~HasKey(entries, sDependsOn) THEN Found(<<>>)
  ELSE LET v == GetKey(entries, sDependsOn)
       IN CASE v.tag = "list" -> Found(StrItems(v.items))
            [] v.tag = "str" -> Found([i \in 1..Len(v.s) |-> <<v.s[i]>>])
            [] v.tag = "map" -> Found([i \in 1..Len(v.entries) |-> v.entries[i].k])
            [] OTHER -> Raised

RECURSIVE ExtractDependencies(_, _)
RECURSIVE ScanList(_, _)
RECURSIVE ScanValues(_, _)

\* the loop over the items of a list-valued attribute: strings are
\* searched, dicts are descended into, anything else is skipped
ScanList(items, seed) ==
  IF items = <<>> THEN Found(<<>>)
  ELSE LET item == Head(items)
           here == CASE item.tag = "str" -> Found(FindReferences(item.s, seed))
                     [] item.tag = "map" -> ExtractDependencies(item, seed)
                     [] OTHER -> Found(<<>>)
       IN IF here.err THEN Raised
          ELSE LET rest == ScanList(Tail(items), seed)
               IN IF rest.err THEN Raised ELSE Found(here.deps \o rest.deps)

\* the loop over config.items()
ScanValues(entries, seed) ==
  IF entries = <<>> THEN Found(<<>>)
  ELSE LET value == Head(entries).v
           here == CASE value.tag = "str" -> Found(FindReferences(value.s, seed))
                     [] value.tag = "map" -> ExtractDependencies(value, seed)
                     [] value.tag = "list" -> ScanList(value.items, seed)
                     [] OTHER -> Found(<<>>)
       IN IF here.err THEN Raised
          ELSE LET rest == ScanValues(Tail(entries), seed)
               IN IF rest.err THEN Raised ELSE Found(here.deps \o rest.deps)

\* config that is not a dict has no .items(): the call raises
ExtractDependencies(config, seed) ==
  IF config.tag # "map" THEN Raised
  ELSE LET explicit == ExplicitDeps(config.entries)
       IN IF explicit.err THEN Raised
          ELSE LET found == ScanValues(config.entries, seed)
               IN IF found.err THEN Raised
                  ELSE Found(ListSet(explicit.deps \o found.deps, seed))

\* ------------------------------------------------------------------------
\* Entities and relationships
\* ------------------------------------------------------------------------
None == [some |-> FALSE, val |-> <<>>]
Some(v) == [some |-> TRUE, val |-> v]
NoPosition == [some |-> FALSE, x |-> 0, y |-> 0]
Position(x, y) == [some |-> TRUE, x |-> x, y |-> y]

Categories == <<"resource", "data", "module", "variable", "output", "provider">>

\* a declared block: category, type label (resource and data only), name
\* label and body
Block(category, type, name, config) ==
  [category |-> category, type |-> type, name |-> name, config |-> config]

\* entity_id = f"..."
EntityId(b) ==
  CASE b.category = "resource" -> sResource \o Dot \o b.type \o Dot \o b.name
    [] b.category = "data" -> sData \o Dot \o b.type \o Dot \o b.name
    [] b.category = "module" -> sModule \o Dot \o b.name
    [] b.category = "variable" -> sVar \o Dot \o b.name
    [] b.category = "output" -> sOutput \o Dot \o b.name
    [] OTHER -> sProvider \o Dot \o b.name

EntityType(b) ==
  CASE b.category \in {"resource", "data"} -> b.type
    [] b.category = "module" -> sModule
    [] b.category = "variable" -> sVariable
    [] b.category = "output" -> sOutput
    [] OTHER -> sProvider

\* the provider is the whole type label
EntityProviderOfType(b) ==
  CASE b.category \in {"resource", "data"} -> Some(b.type)
    [] b.category = "provider" -> Some(b.name)
    [] OTHER -> None

EntityProvider(b) ==
  CASE b.category \in {"resource", "data"} -> Some(FirstToken(b.type))
    [] b.category = "provider" -> Some(b.name)
    [] OTHER -> None

\* every category scans its body for dependencies
BlockDepsAll(b, seed) == ExtractDependencies(b.config, seed)

\* variables and providers get dependencies=[] without looking at the body
BlockDeps(b, seed) ==
  IF b.category \in {"variable", "provider"} THEN Found(<<>>)
  ELSE ExtractDependencies(b.config, seed)

TerraformEntity(b, deps) ==
  [id |-> EntityId(b), type |-> EntityType(b), category |-> b.category,
   name |-> b.name, provider |-> EntityProvider(b), attributes |-> b.config,
   dependencies |-> deps, position |-> NoPosition]

\* the relationship type of the resource extractor, copied to the outputs
RelationTypeCopied(b) == "depends_on"

RelationType(b) == IF b.category = "output" THEN "references" ELSE "depends_on"

\* relationships whose source is the declared name instead of the entity id
CreateRelationshipsByName(b, deps) ==
  [i \in 1..Len(deps) |->
     [source |-> b.name, target |-> deps[i], type |-> RelationType(b)]]

\* relationships only for the dependencies that are not local values
CreateRelationshipsNoLocals(b, deps) ==
  LET kept == SelectSeq(deps, LAMBDA d : ~HasLit(d, 1, sLocal \o Dot))
  IN [i \in 1..Len(kept) |->
        [source |-> EntityId(b), target |-> kept[i], type |-> RelationType(b)]]

\* for dep in deps: self.relationships.append({...})
CreateRelationships(b, deps) ==
  [i \in 1..Len(deps) |->
     [source |-> EntityId(b), target |-> deps[i], type |-> RelationType(b)]]

\* self.entities[entity_id] = entity: an existing key keeps its place in
\* the dict, a new key goes to the end
IndexOf(ents, id) == CHOOSE i \in 1..Len(ents) : ents[i].id = id

\* a registry kept as a list: every declaration is appended
SetEntityAppend(ents, e) == Append(ents, e)

\* a registry filled with setdefault: the first declaration stays
SetEntityKeepFirst(ents, e) ==
  IF \E i \in 1..Len(ents) : ents[i].id = e.id THEN ents ELSE Append(ents, e)

SetEntity(ents, e) ==
  IF \E i \in 1..Len(ents) : ents[i].id = e.id
  THEN [ents EXCEPT ![IndexOf(ents, e.id)] = e]
  ELSE Append(ents, e)

\* ------------------------------------------------------------------------
\* calculate_layout
\* ------------------------------------------------------------------------
CategoryOrder(ents) == Dedup([i \in 1..Len(ents) |-> ents[i].category])

ColumnOf(ents, cat) ==
  (CHOOSE k \in 1..Len(CategoryOrder(ents)) : CategoryOrder(ents)[k] = cat) - 1

\* rows counted over the whole registry
RowOfRegistry(ents, i) == i - 1

RowOf(ents, i) == Cardinality({j \in 1..(i - 1) : ents[j].category = ents[i].category})

\* a layout that also resets the dependencies of what it places
CalculateLayoutResetting(ents) ==
  [i \in 1..Len(ents) |->
     [ents[i] EXCEPT !.position = Position(0, 150 * (i - 1)), !.dependencies = <<>>]]

CalculateLayout(ents) ==
  [i \in 1..Len(ents) |->
     [ents[i] EXCEPT !.position =
        Position(ColumnOf(ents, ents[i].category) * 250, RowOf(ents, i) * 150)]]

\* ------------------------------------------------------------------------
\* The directories of the model
\* ------------------------------------------------------------------------
cA == <<"a">>
cB == <<"b">>
cM == <<"m">>
cU == <<"u">>
cV == <<"v">>
cX == <<"x">>
cY == <<"y">>
cZ == <<"z">>
tAwsV == <<"a","w","s","_","v">>
tAwsS == <<"a","w","s","_","s">>
tAwsI == <<"a","w","s","_","i">>
sAwsName == <<"a","w","s">>

\* resource "aws_v" "a" { c = "10" }
bA == Block("resource", tAwsV, cA, Map(<<KV(<<"c">>, Str(<<"1","0">>))>>))

\* resource "aws_s" "b" { v = aws_v.a.id  n = 1 }
bB ==
  Block("resource", tAwsS, cB,
        Map(<<KV(cV, Str(<<"$","{","a","w","s","_","v",".","a",".","i","d","}">>)),
              KV(<<"n">>, Num(1))>>))

\* resource "aws_s" "b" { depends_on = [aws_v.a, 7]  z = local.z }
bB2 ==
  Block("resource", tAwsS, cB,
        Map(<<KV(sDependsOn,
                 List(<<Str(<<"$","{","a","w","s","_","v",".","a","}">>), Num(7)>>)),
              KV(cZ, Str(<<"$","{","l","o","c","a","l",".","z","}">>))>>))

\* output "x" { value = aws_s.b.id }
bO ==
  Block("output", <<>>, cX,
        Map(<<KV(cV, Str(<<"$","{","a","w","s","_","s",".","b",".","i","d","}">>))>>))

\* output "x" { value = "${module.m.o}-${var.v}" }
bO2 ==
  Block("output", <<>>, cX,
        Map(<<KV(cV, Str(<<"$","{","m","o","d","u","l","e",".","m",".","o","}","-",
                           "$","{","v","a","r",".","v","}">>))>>))

\* variable "v" { default = "var.q" }
bV == Block("variable", <<>>, cV, Map(<<KV(<<"d">>, Str(<<"v","a","r",".","q">>))>>))

\* provider "aws" { r = "us" }
bP == Block("provider", <<>>, sAwsName, Map(<<KV(<<"r">>, Str(<<"u","s">>))>>))

\* module "m" { s = "./m"  i = data.aws_i.u.id  t = { k = ["output.x", true] } }
bM ==
  Block("module", <<>>, cM,
        Map(<<KV(<<"s">>, Str(<<".","/","m">>)),
              KV(<<"i">>, Str(<<"$","{","d","a","t","a",".","a","w","s","_","i",".","u",
                                ".","i","d","}">>)),
              KV(<<"t">>, Map(<<KV(<<"k">>,
                     List(<<Str(<<"o","u","t","p","u","t",".","x">>), Bool(TRUE)>>))>>))>>))

\* data "aws_i" "u" { f { n = true } }
bD ==
  Block("data", tAwsI, cU,
        Map(<<KV(<<"f">>, List(<<Map(<<KV(<<"n">>, Bool(TRUE))>>)>>))>>))

\* an output whose body the loader delivered as a string instead of a mapping
bY == Block("output", <<>>, cY, Str(<<"v","a","r",".","v">>))

\* a file: how the load ends ("ok", or "syntax" for a LarkError of
\* hcl2.loads) and the blocks it declares, in the order of the text
File(load, blocks) == [load |-> load, blocks |-> blocks]

Files ==
  << File("ok", <<bO, bP, bA, bB, bD>>),
     File("ok", <<bB2, bV, bO2, bM>>),
     File("syntax", <<bA, bO2>>),
     File("ok", <<bV, bY>>) >>

\* the directories: up to MaxFiles distinct files in the order of rglob
RECURSIVE SeqsUpTo(_, _)
SeqsUpTo(S, n) ==
  IF n = 0 THEN {<<>>}
  ELSE LET shorter == SeqsUpTo(S, n - 1)
       IN shorter \cup {Append(q, x) : q \in shorter, x \in S}

Directories ==
  LET idx == {q \in SeqsUpTo(1..Len(Files), MaxFiles) :
                \A i, j \in 1..Len(q) : i # j => q[i] # q[j]}
  IN {[i \in 1..Len(q) |-> Files[q[i]]] : q \in idx}

\* parsed = hcl2.loads(content), then the six "if ... in parsed" of
\* _parse_file: all resources, then data, modules, variables, outputs,
\* providers, each category in the order of the text
IsResource(b) == b.category = "resource"
IsData(b) == b.category = "data"
IsModule(b) == b.category = "module"
IsVariable(b) == b.category = "variable"
IsOutput(b) == b.category = "output"
IsProvider(b) == b.category = "provider"

ProcessOrder(blocks) ==
  SelectSeq(blocks, IsResource) \o SelectSeq(blocks, IsData)
    \o SelectSeq(blocks, IsModule) \o SelectSeq(blocks, IsVariable)
    \o SelectSeq(blocks, IsOutput) \o SelectSeq(blocks, IsProvider)

\* a loader that hands over the blocks it read before the syntax error
LoadsPartial(file) == [err |-> FALSE, blocks |-> ProcessOrder(file.blocks)]

\* hcl2.loads(content) inside the try of _parse_file: a LarkError leaves
\* the except clause with nothing extracted
Loads(file) ==
  IF file.load = "syntax" THEN [err |-> TRUE, blocks |-> <<>>]
  ELSE [err |-> FALSE, blocks |-> ProcessOrder(file.blocks)]

\* a result whose file count includes the directory itself
GraphResultCountingDir(owner, ents, rels, files) ==
  [kind |-> "result", owner |-> owner, entities |-> ents, relationships |-> rels,
   metadata |-> [total_files |-> Len(files) + 1, total_entities |-> Len(ents),
                 total_relationships |-> Len(rels)]]

\* ------------------------------------------------------------------------
\* Results
\* ------------------------------------------------------------------------
\* The dict that parse_directory returns.  "entities" holds copies
\* (asdict); "relationships" is the parser's own list object, so a result
\* of the parser `owner' sees every later append to that list.
GraphResult(owner, ents, rels, files) ==
  [kind |-> "result", owner |-> owner, entities |-> ents, relationships |-> rels,
   metadata |-> [total_files |-> Len(files), total_entities |-> Len(ents),
                 total_relationships |-> Len(rels)]]

Outcome(kind) ==
  [kind |-> kind, owner |-> 0, entities |-> <<>>, relationships |-> <<>>,
   metadata |-> [total_files |-> 0, total_entities |-> 0, total_relationships |-> 0]]

NoResult == Outcome("none")

\* json.dump(result, f, indent=2, default=str): the document on disk is a
\* copy, detached from the parser's list
ToJson(r) == [r EXCEPT !.owner = 0]

\* ------------------------------------------------------------------------
\* State
\* ------------------------------------------------------------------------
VARIABLES
  hashSeed,        \* the string hash seed of the interpreter process
  dir,             \* the .tf files under terraform_dir, in rglob order
  parserId,        \* identity of the TerraformParser object in use
  entities,        \* self.entities, a dict in insertion order
  relationships,   \* self.relationships
  op,              \* the operation the caller invoked last
  todo,            \* the statements of that operation still to run
  phase,           \* "start" or "loop": position inside parse_directory
  tf_files,        \* local tf_files of parse_directory
  fileIdx,         \* position of the for loop over tf_files
  blockIdx,        \* position inside the blocks of the current file
  result,          \* value of the latest parse_directory() of this operation
  held,            \* local `result' of the service's parse_terraform
  returned,        \* what the operation handed to its caller
  persisted,       \* the JSON document at output_path
  calls,           \* number of operations invoked so far
  firstResult,     \* history: first result this parser returned
  parseCount,      \* history: parse_directory calls this parser completed
  startEntities,   \* history: self.entities when parse_directory started
  startRelationships,
  dirKind,         \* what terraform_dir names: "dir", "file" or "missing"
  earlier,         \* output of an extraction by an earlier interpreter process
  probe,           \* the text handed to _find_references on its own
  resolved,        \* what that call returned
  site,            \* the service's file system: scan paths, test data, ./terraform
  response,        \* the answer to the latest request to the service
  uploads,         \* the files in work/uploads, shared by all requests
  requests         \* the POST /api/parse requests in progress

vars ==
  <<hashSeed, dir, parserId, entities, relationships, op, todo, phase, tf_files,
    fileIdx, blockIdx, result, held, returned, persisted, calls, firstResult,
    parseCount, startEntities, startRelationships, dirKind, earlier, probe, resolved,
    site, response, uploads, requests>>

parserVars == <<parserId, entities, relationships, firstResult, parseCount>>
loopVars == <<phase, tf_files, fileIdx, blockIdx, startEntities, startRelationships>>
processVars == <<hashSeed, earlier>>
probeVars == <<probe, resolved>>
serviceVars == <<site, response, uploads, requests>>
fixedVars == <<processVars, dir, dirKind, probeVars, serviceVars>>

\* what Path(terraform_dir) can name
DirKinds == {"dir", "file", "missing"}

\* a text with what it is built from: the reference it holds (ref), the
\* reference class of that reference, the canonical identifier of that
\* class for it (canon) and how the reference is embedded (form)
Probe(class, ref, canon, form, text) ==
  [class |-> class, ref |-> ref, canon |-> canon, form |-> form, text |-> text]

NoProbe == Probe("none", <<>>, <<>>, "none", <<>>)
NotResolved == [done |-> FALSE, refs |-> <<>>]

\* the requests that POST /api/parse can be serving at once
Requests == {1, 2}

\* a served path: whether os.path.exists holds for it and the .tf files
\* under it
Location(exists, files) == [exists |-> exists, files |-> files]
Absent == Location(FALSE, <<>>)

\* where the data of an answer comes from: the cache, the scan path of a
\* given index, the test data or ./terraform
Source(kind, index) == [kind |-> kind, index |-> index]

\* an answer of the service: status, the origin of its data and the data
Response(status, source, data) == [status |-> status, source |-> source, data |-> data]
NoResponse == Response(0, Source("none", 0), NoResult)

\* a request to POST /api/parse: where it stands (pc), the files of its
\* multipart body, how many of them it has handled, and its answer
Request(pc, files, saved, answer) ==
  [pc |-> pc, files |-> files, saved |-> saved, answer |-> answer]

\* no service is running
NoService ==
  /\ site = [scan |-> <<>>, test |-> Absent, old |-> Absent]
  /\ response = NoResponse
  /\ uploads = <<>>
  /\ requests = [r \in Requests |-> Request("idle", <<>>, 0, NoResponse)]

\* self.entities = {}, self.relationships = [] and no call made yet
InitParser ==
  /\ parserId = 1
  /\ entities = <<>>
  /\ relationships = <<>>
  /\ op = "none"
  /\ todo = <<>>
  /\ phase = "start"
  /\ tf_files = <<>>
  /\ fileIdx = 1
  /\ blockIdx = 1
  /\ result = NoResult
  /\ held = NoResult
  /\ returned = NoResult
  /\ persisted = NoResult
  /\ calls = 0
  /\ firstResult = NoResult
  /\ parseCount = 0
  /\ startEntities = <<>>
  /\ startRelationships = <<>>
  /\ earlier = NoResult

Init ==
  /\ hashSeed \in {0, 1}
  /\ dirKind \in DirKinds
  /\ dir \in (IF dirKind = "dir" THEN Directories ELSE {<<>>})
  /\ probe = NoProbe
  /\ resolved = NotResolved
  /\ InitParser
  /\ NoService

\* a result that holds the list object of the parser in use
Aliased(r, rels) ==
  IF r.kind = "result" /\ r.owner = parserId THEN [r EXCEPT !.relationships = rels] ELSE r

\* ------------------------------------------------------------------------
\* The operations a caller invokes
\* ------------------------------------------------------------------------
Invoke(name, statements) ==
  /\ todo = <<>>
  /\ calls < MaxCalls
  /\ calls' = calls + 1
  /\ op' = name
  /\ todo' = statements
  /\ result' = NoResult
  /\ held' = NoResult
  /\ returned' = NoResult
  /\ UNCHANGED <<fixedVars, parserVars, loopVars, persisted>>

\* parser.parse_directory()
CallParseDirectory == Invoke("parse_directory", <<"parse", "return_result">>)

\* parser.calculate_layout()
CallCalculateLayout == Invoke("calculate_layout", <<"layout", "return_none">>)

\* parser.save_to_json(output_path)
CallSaveToJson == Invoke("save_to_json", <<"layout", "parse", "write", "return_none">>)

\* parse_terraform(terraform_dir, output_path) of the parser module
CallParseTerraform ==
  Invoke("parse_terraform", <<"init", "layout", "parse", "write", "parse", "return_result">>)

\* parse_terraform(directory, output_path) of the service
CallApiParseTerraform ==
  Invoke("api_parse_terraform",
         <<"init", "parse", "hold", "layout", "parse", "write", "return_held">>)

\* the answers of the service that carry no graph
Answer(status) == Outcome(status)

\* POST /api/parse-directory: 400 without a directory in the request, 404
\* when os.path.exists(directory) is false, otherwise the service's
\* parse_terraform(directory, output_path) and 200 with its result
CallApiParseDirectory ==
  \E given \in BOOLEAN :
     IF given /\ dirKind # "missing"
     THEN Invoke("parse_terraform_directory",
                 <<"init", "parse", "hold", "layout", "parse", "write", "return_held">>)
     ELSE /\ todo = <<>>
          /\ calls < MaxCalls
          /\ calls' = calls + 1
          /\ op' = "parse_terraform_directory"
          /\ todo' = <<>>
          /\ result' = NoResult
          /\ held' = NoResult
          /\ returned' = Answer(IF given THEN "404" ELSE "400")
          /\ UNCHANGED <<fixedVars, parserVars, loopVars, persisted>>

\* ------------------------------------------------------------------------
\* The statements
\* ------------------------------------------------------------------------
Doing(statement) == todo # <<>> /\ Head(todo) = statement

\* TerraformParser(terraform_dir)
Construct ==
  /\ Doing("init")
  /\ parserId' = parserId + 1
  /\ entities' = <<>>
  /\ relationships' = <<>>
  /\ firstResult' = NoResult
  /\ parseCount' = 0
  /\ todo' = Tail(todo)
  /\ UNCHANGED <<fixedVars, loopVars, op, result, held, returned, persisted, calls>>

\* self.calculate_layout()
Layout ==
  /\ Doing("layout")
  /\ entities' = CalculateLayout(entities)
  /\ todo' = Tail(todo)
  /\ UNCHANGED <<fixedVars, loopVars, parserId, relationships, firstResult, parseCount,
                 op, result, held, returned, persisted, calls>>

\* tf_files = list(self.terraform_dir.rglob("*.tf")): rglob yields nothing
\* for a path that is missing or is a file, and does not raise
StartParse ==
  /\ Doing("parse")
  /\ phase = "start"
  /\ phase' = "loop"
  /\ tf_files' = (IF dirKind = "dir" THEN dir ELSE <<>>)
  /\ fileIdx' = 1
  /\ blockIdx' = 1
  /\ startEntities' = entities
  /\ startRelationships' = relationships
  /\ UNCHANGED <<fixedVars, parserVars, op, todo, result, held, returned, persisted, calls>>

InFile == Doing("parse") /\ phase = "loop" /\ fileIdx <= Len(tf_files)

\* _parse_file: hcl2.loads raises, the except clause prints and returns
LoadFails ==
  /\ InFile
  /\ Loads(tf_files[fileIdx]).err
  /\ fileIdx' = fileIdx + 1
  /\ blockIdx' = 1
  /\ UNCHANGED <<fixedVars, parserVars, phase, tf_files, startEntities,
                 startRelationships, op, todo, result, held, returned, persisted, calls>>

CurrentBlocks == Loads(tf_files[fileIdx]).blocks

\* one iteration of the innermost loop of an _extract_* method
ExtractBlock ==
  /\ InFile
  /\ ~Loads(tf_files[fileIdx]).err
  /\ blockIdx <= Len(CurrentBlocks)
  /\ LET b == CurrentBlocks[blockIdx]
         d == BlockDeps(b, hashSeed)
         rels == relationships \o CreateRelationships(b, d.deps)
     IN /\ ~d.err
        /\ entities' = SetEntity(entities, TerraformEntity(b, d.deps))
        /\ relationships' = rels
        /\ result' = Aliased(result, rels)
        /\ held' = Aliased(held, rels)
        /\ firstResult' = Aliased(firstResult, rels)
  /\ blockIdx' = blockIdx + 1
  /\ UNCHANGED <<fixedVars, parserId, parseCount, phase, tf_files, fileIdx, startEntities,
                 startRelationships, op, todo, returned, persisted, calls>>

\* _extract_dependencies raises (AttributeError, TypeError); nothing
\* between here and the caller of the operation catches it, except the
\* handler of /api/parse-directory, which answers 500
ExtractRaises ==
  /\ InFile
  /\ ~Loads(tf_files[fileIdx]).err
  /\ blockIdx <= Len(CurrentBlocks)
  /\ BlockDeps(CurrentBlocks[blockIdx], hashSeed).err
  /\ returned' = (IF op = "parse_terraform_directory" THEN Answer("500")
                  ELSE Outcome("raised"))
  /\ todo' = <<>>
  /\ phase' = "start"
  /\ UNCHANGED <<fixedVars, parserVars, tf_files, fileIdx, blockIdx, startEntities,
                 startRelationships, op, result, held, persisted, calls>>

\* _parse_file returns
EndFile ==
  /\ InFile
  /\ ~Loads(tf_files[fileIdx]).err
  /\ blockIdx > Len(CurrentBlocks)
  /\ fileIdx' = fileIdx + 1
  /\ blockIdx' = 1
  /\ UNCHANGED <<fixedVars, parserVars, phase, tf_files, startEntities,
                 startRelationships, op, todo, result, held, returned, persisted, calls>>

\* the return statement of parse_directory
BuildResult ==
  /\ Doing("parse")
  /\ phase = "loop"
  /\ fileIdx > Len(tf_files)
  /\ result' = GraphResult(parserId, entities, relationships, tf_files)
  /\ firstResult' = IF parseCount = 0 THEN result' ELSE firstResult
  /\ parseCount' = parseCount + 1
  /\ phase' = "start"
  /\ todo' = Tail(todo)
  /\ UNCHANGED <<fixedVars, parserId, entities, relationships, tf_files, fileIdx, blockIdx,
                 startEntities, startRelationships, op, held, returned, persisted, calls>>

\* output_file.parent.mkdir(...); json.dump(result, f, ...)
Write ==
  /\ Doing("write")
  /\ persisted' = ToJson(result)
  /\ todo' = Tail(todo)
  /\ UNCHANGED <<fixedVars, parserVars, loopVars, op, result, held, returned, calls>>

\* result = parser.parse_directory() of the service's parse_terraform
Hold ==
  /\ Doing("hold")
  /\ held' = result
  /\ todo' = Tail(todo)
  /\ UNCHANGED <<fixedVars, parserVars, loopVars, op, result, returned, persisted, calls>>

\* return parser.parse_directory()
ReturnResult ==
  /\ Doing("return_result")
  /\ returned' = result
  /\ todo' = Tail(todo)
  /\ UNCHANGED <<fixedVars, parserVars, loopVars, op, result, held, persisted, calls>>

\* return result
ReturnHeld ==
  /\ Doing("return_held")
  /\ returned' = held
  /\ todo' = Tail(todo)
  /\ UNCHANGED <<fixedVars, parserVars, loopVars, op, result, held, persisted, calls>>

\* the operation returns None
ReturnNone ==
  /\ Doing("return_none")
  /\ returned' = Outcome("None")
  /\ todo' = Tail(todo)
  /\ UNCHANGED <<fixedVars, parserVars, loopVars, op, result, held, persisted, calls>>

Next ==
  \/ CallParseDirectory
  \/ CallCalculateLayout
  \/ CallSaveToJson
  \/ CallParseTerraform
  \/ CallApiParseTerraform
  \/ Construct
  \/ Layout
  \/ StartParse
  \/ LoadFails
  \/ ExtractBlock
  \/ ExtractRaises
  \/ EndFile
  \/ BuildResult
  \/ Write
  \/ Hold
  \/ ReturnResult
  \/ ReturnHeld
  \/ ReturnNone

Spec == Init /\ [][Next]_vars

\* ------------------------------------------------------------------------
\* Extraction by path: the module-level parse_terraform and the service
\* ------------------------------------------------------------------------
NextService ==
  \/ CallParseTerraform
  \/ CallApiParseDirectory
  \/ Construct
  \/ Layout
  \/ StartParse
  \/ LoadFails
  \/ ExtractBlock
  \/ ExtractRaises
  \/ EndFile
  \/ BuildResult
  \/ Write
  \/ Hold
  \/ ReturnResult
  \/ ReturnHeld

SpecService == Init /\ [][NextService]_vars

\* ------------------------------------------------------------------------
\* Runs of the command line: python parser.py <dir> <output>
\* ------------------------------------------------------------------------
\* the interpreter exits after parse_terraform returned; the document it
\* wrote is kept aside, and the next run is a new process with its own
\* string hashing, hence its own iteration order of sets
Exit ==
  /\ todo = <<>>
  /\ op = "parse_terraform"
  /\ returned.kind = "result"
  /\ earlier.kind = "none"
  /\ earlier' = persisted
  /\ hashSeed' \in {0, 1}
  /\ parserId' = parserId + 1
  /\ entities' = <<>>
  /\ relationships' = <<>>
  /\ firstResult' = NoResult
  /\ parseCount' = 0
  /\ op' = "none"
  /\ result' = NoResult
  /\ held' = NoResult
  /\ returned' = NoResult
  /\ calls' = 0
  /\ UNCHANGED <<dir, dirKind, probeVars, serviceVars, loopVars, persisted, todo>>

NextRuns ==
  \/ CallParseTerraform
  \/ Construct
  \/ Layout
  \/ StartParse
  \/ LoadFails
  \/ ExtractBlock
  \/ ExtractRaises
  \/ EndFile
  \/ BuildResult
  \/ Write
  \/ ReturnResult
  \/ Exit

SpecRuns == Init /\ [][NextRuns]_vars

\* ------------------------------------------------------------------------
\* Texts and block bodies for the resolver on its own
\* ------------------------------------------------------------------------
\* one reference of a class: the text of the reference and the canonical
\* identifier that the comments of `patterns' give for it
Reference(class, ref, canon) == [class |-> class, ref |-> ref, canon |-> canon]

References ==
  { Reference("shorthand", <<"a","w","s","_","v",".","a">>,
              <<"r","e","s","o","u","r","c","e",".","a","w","s","_","v",".","a">>),
    Reference("shorthand", <<"g","o","o","g","l","e","_","v",".","a">>,
              <<"r","e","s","o","u","r","c","e",".","g","o","o","g","l","e","_","v",".","a">>),
    Reference("shorthand", <<"a","z","u","r","e","r","m","_","v",".","a">>,
              <<"r","e","s","o","u","r","c","e",".","a","z","u","r","e","r","m","_","v",".","a">>),
    Reference("resource", <<"r","e","s","o","u","r","c","e",".","f","o","o",".","a">>,
              <<"r","e","s","o","u","r","c","e",".","f","o","o",".","a">>),
    Reference("resource", <<"r","e","s","o","u","r","c","e",".","a","w","s","_","v",".","a">>,
              <<"r","e","s","o","u","r","c","e",".","a","w","s","_","v",".","a">>),
    Reference("data", <<"d","a","t","a",".","f","o","o",".","u">>,
              <<"d","a","t","a",".","f","o","o",".","u">>),
    Reference("data", <<"d","a","t","a",".","a","w","s","_","i",".","u">>,
              <<"d","a","t","a",".","a","w","s","_","i",".","u">>),
    Reference("module", <<"m","o","d","u","l","e",".","m">>,
              <<"m","o","d","u","l","e",".","m">>),
    Reference("var", <<"v","a","r",".","v">>,
              <<"v","a","r",".","v">>),
    Reference("local", <<"l","o","c","a","l",".","z">>,
              <<"l","o","c","a","l",".","z">>),
    Reference("output", <<"o","u","t","p","u","t",".","x">>,
              <<"o","u","t","p","u","t",".","x">>) }

sOpen == <<"$","{">>
sClose == <<"}">>
sId == <<".","i","d">>

\* the ways a reference is written in an attribute value: bare, in an
\* interpolation, as an attribute of the entity, and inside a longer text
\* with the interpolation at its end or followed by a letter
Forms == {"bare", "interpolated", "attribute", "trailing", "leading"}

Embed(form, ref) ==
  CASE form = "bare" -> ref
    [] form = "interpolated" -> sOpen \o ref \o sClose
    [] form = "attribute" -> sOpen \o ref \o sId \o sClose
    [] form = "trailing" -> <<"n","-">> \o sOpen \o ref \o sClose
    [] form = "leading" -> sOpen \o ref \o sClose \o <<"y">>

ProbeTexts ==
  {Probe(r.class, r.ref, r.canon, f, Embed(f, r.ref)) : r \in References, f \in Forms}
     \cup {Probe("none", <<>>, <<>>, "none", t) : t \in {<<>>, <<"1","0">>, <<"$","{","}">>}}

\* _find_references(text) called on its own
Resolve ==
  /\ ~resolved.done
  /\ resolved' = [done |-> TRUE, refs |-> FindReferences(probe.text, hashSeed)]
  /\ UNCHANGED <<hashSeed, earlier, dir, dirKind, probe, serviceVars, parserVars,
                 loopVars, op, todo, result, held, returned, persisted, calls>>

InitResolve ==
  /\ hashSeed \in {0, 1}
  /\ dirKind = "dir"
  /\ dir = <<>>
  /\ probe \in ProbeTexts
  /\ resolved = NotResolved
  /\ InitParser
  /\ NoService

NextResolve == Resolve

SpecResolve == InitResolve /\ [][NextResolve]_vars

\* the values at which a scan of a block body can end: a text holding one
\* reference, a text holding none, a number and a boolean
ProbeLeaves ==
  {Str(Embed("attribute", r.ref)) : r \in References}
     \cup {Str(<<"1","0">>), Num(7), Bool(TRUE)}

cK == <<"k">>
cJ == <<"j">>

\* the places of a block body where a value can stand
Contexts == {"attribute", "sequence", "mapping", "nested_block", "nested_sequence",
             "depends_on", "depends_on_and_attribute"}

Body(context, leaf) ==
  CASE context = "attribute" -> Map(<<KV(cK, leaf)>>)
    [] context = "sequence" -> Map(<<KV(cK, List(<<leaf>>))>>)
    [] context = "mapping" -> Map(<<KV(cK, Map(<<KV(cJ, leaf)>>))>>)
    [] context = "nested_block" -> Map(<<KV(cK, List(<<Map(<<KV(cJ, leaf)>>)>>))>>)
    [] context = "nested_sequence" -> Map(<<KV(cK, List(<<List(<<leaf>>)>>))>>)
    [] context = "depends_on" -> Map(<<KV(sDependsOn, List(<<leaf>>))>>)
    [] context = "depends_on_and_attribute" ->
         Map(<<KV(sDependsOn, List(<<leaf, Num(7)>>)),
               KV(cK, Str(Embed("interpolated", sVar \o Dot \o cV)))>>)

\* bodies whose depends_on is not a list, and bodies that are not a mapping
OddBodies ==
  { Map(<<>>),
    Map(<<KV(sDependsOn, Num(7))>>),
    Map(<<KV(sDependsOn, Bool(TRUE))>>),
    Map(<<KV(sDependsOn, Str(<<"a","b">>))>>),
    Map(<<KV(sDependsOn, Map(<<KV(cK, Str(sVar \o Dot \o cV))>>))>>),
    Str(sVar \o Dot \o cV),
    List(<<Str(sVar \o Dot \o cV)>>),
    Num(7) }

ProbeBodies == {Body(c, l) : c \in Contexts, l \in ProbeLeaves} \cup OddBodies

\* one declaration of each category; the references of `References' to
\* aws_v.a, data.aws_i.u, module.m, var.v and output.x name them
Declaration(category, config) ==
  CASE category = "resource" -> Block("resource", tAwsV, cA, config)
    [] category = "data" -> Block("data", tAwsI, cU, config)
    [] category = "module" -> Block("module", <<>>, cM, config)
    [] category = "variable" -> Block("variable", <<>>, cV, config)
    [] category = "output" -> Block("output", <<>>, cX, config)
    [] category = "provider" -> Block("provider", <<>>, sAwsName, config)

ProbeBlocks == {Declaration(c, body) : c \in Range(Categories), body \in ProbeBodies}

\* a directory of one file that declares one block
InitBlock ==
  /\ hashSeed \in {0, 1}
  /\ dirKind = "dir"
  /\ dir \in {<<File("ok", <<b>>)>> : b \in ProbeBlocks}
  /\ probe = NoProbe
  /\ resolved = NotResolved
  /\ InitParser
  /\ NoService

NextBlock ==
  \/ CallParseDirectory
  \/ StartParse
  \/ ExtractBlock
  \/ ExtractRaises
  \/ EndFile
  \/ BuildResult
  \/ ReturnResult

SpecBlock == InitBlock /\ [][NextBlock]_vars

\* the block of the directory of SpecBlock
TheBlock == dir[1].blocks[1]

\* ------------------------------------------------------------------------
\* The directory of test_extract_relationships: one file declaring a
\* resource a, a resource b that refers to a, and an output x that refers
\* to b
\* ------------------------------------------------------------------------
Vendors == {sAws, sAzurerm, sGoogle}

\* how the output names resource b
OutputReferences == {"shorthand", "explicit"}

TextOrders == {<<1, 2, 3>>, <<1, 3, 2>>, <<2, 1, 3>>, <<2, 3, 1>>, <<3, 1, 2>>, <<3, 2, 1>>}

ScenarioBlocks(vendor, formA, kindB, formB) ==
  LET typeA == vendor \o cV
      typeB == vendor \o <<"s">>
      refA == typeA \o Dot \o cA
      refB == (IF kindB = "explicit" THEN sResource \o Dot ELSE <<>>) \o typeB \o Dot \o cB
  IN << Block("resource", typeA, cA, Map(<<KV(<<"c">>, Str(<<"1","0">>))>>)),
        Block("resource", typeB, cB, Map(<<KV(cV, Str(Embed(formA, refA)))>>)),
        Block("output", <<>>, cX, Map(<<KV(cV, Str(Embed(formB, refB)))>>)) >>

ScenarioDirectories ==
  { << File("ok", [i \in 1..3 |-> ScenarioBlocks(vendor, formA, kindB, formB)[order[i]]]) >> :
      vendor \in Vendors, formA \in {"bare", "interpolated", "attribute"},
      kindB \in OutputReferences, formB \in {"bare", "interpolated", "attribute"},
      order \in TextOrders }

InitScenario ==
  /\ hashSeed \in {0, 1}
  /\ dirKind = "dir"
  /\ dir \in ScenarioDirectories
  /\ probe = NoProbe
  /\ resolved = NotResolved
  /\ InitParser
  /\ NoService

NextScenario ==
  \/ CallParseDirectory
  \/ StartParse
  \/ ExtractBlock
  \/ EndFile
  \/ BuildResult
  \/ ReturnResult

SpecScenario == InitScenario /\ [][NextScenario]_vars

\* the block of the scenario's file that is declared under `name'
ScenarioBlock(name) ==
  dir[1].blocks[CHOOSE i \in 1..Len(dir[1].blocks) : dir[1].blocks[i].name = name]

\* ------------------------------------------------------------------------
\* Type correctness
\* ------------------------------------------------------------------------
TypeOK ==
  /\ hashSeed \in {0, 1}
  /\ Len(dir) <= MaxFiles
  /\ phase \in {"start", "loop"}
  /\ calls \in 0..MaxCalls
  /\ fileIdx \in 1..(Len(tf_files) + 1)
  /\ \A i \in 1..Len(entities) : entities[i].category \in Range(Categories)
  /\ \A i \in 1..Len(relationships) :
       relationships[i].type \in {"depends_on", "references"}
  /\ returned.kind \in {"none", "result", "None", "raised", "400", "404", "500"}
  /\ dirKind \in DirKinds
  /\ resolved.done \in BOOLEAN
  /\ Len(site.scan) <= MaxScanPaths
  /\ response.status \in {0, 200, 404, 500}
  /\ \A r \in Requests : requests[r].pc \in {"idle", "save", "cleanup", "done"}
  /\ Len(uploads) <= Cardinality(Requests) * 2

\* ------------------------------------------------------------------------
\* Auxiliary definitions of the properties
\* ------------------------------------------------------------------------
\* the blocks of the files that load, in the order in which a scan of
\* `files' meets them
RECURSIVE LoadedBlocks(_)
LoadedBlocks(files) ==
  IF files = <<>> THEN <<>>
  ELSE (IF Head(files).load = "ok" THEN ProcessOrder(Head(files).blocks) ELSE <<>>)
       \o LoadedBlocks(Tail(files))

\* every block of every file that loads has a body that can be classified
WellShaped(files) ==
  \A i \in 1..Len(LoadedBlocks(files)) : ~BlockDeps(LoadedBlocks(files)[i], hashSeed).err

\* registry and relationship list after the contributions of `blocks'
RECURSIVE Contributed(_, _, _)
Contributed(ents, rels, blocks) ==
  IF blocks = <<>> THEN [entities |-> ents, relationships |-> rels]
  ELSE LET b == Head(blocks)
           deps == BlockDeps(b, hashSeed).deps
       IN Contributed(SetEntity(ents, TerraformEntity(b, deps)),
                      rels \o CreateRelationships(b, deps), Tail(blocks))

\* registry and relationship list after one more block
Registered(acc, b) ==
  CHOOSE out \in
    { [entities |-> SetEntity(acc.entities, TerraformEntity(b, deps)),
       relationships |-> acc.relationships \o CreateRelationships(b, deps)] :
      deps \in {BlockDeps(b, hashSeed).deps} } : TRUE

\* the loop of parse_directory over blocks that all classify, each step
\* taken from the value the step before it produced
RECURSIVE Assembled(_, _)
Assembled(acc, blocks) ==
  IF blocks = <<>> THEN acc
  ELSE CHOOSE out \in {Assembled(next, Tail(blocks)) :
                         next \in {Registered(acc, Head(blocks))}} : TRUE

\* the dict of a result for the registry and relationship list `acc'
GraphOf(acc, files) == GraphResult(0, acc.entities, acc.relationships, files)

\* the two parse_directory runs of one parser: the second starts from
\* what the first left
Twice(first, blocks) == [first |-> first, second |-> Assembled(first, blocks)]

\* parse_terraform(directory, output_path) of the service, run to its end
\* over the .tf files `files' of the directory: whether it raises, the
\* dict it returns (the first parse_directory result, whose relationships
\* are the parser's list and so grew during save_to_json) and the document
\* save_to_json writes (the second parse_directory result)
ApiParseTerraform(files) ==
  CHOOSE out \in
    { [raised |-> ~WellShaped(files),
       data |-> [GraphOf(run.first, files) EXCEPT !.relationships = run.second.relationships],
       document |-> GraphOf(run.second, files)] :
      run \in {Twice(Assembled([entities |-> <<>>, relationships |-> <<>>],
                               LoadedBlocks(files)),
                     LoadedBlocks(files))} } : TRUE

\* the pure form above agrees with the statements of CallApiParseTerraform
ApiParseTerraformAgrees ==
  (op = "api_parse_terraform" /\ todo = <<>>) =>
     \E whole \in {ApiParseTerraform(IF dirKind = "dir" THEN dir ELSE <<>>)} :
        IF whole.raised THEN returned.kind = "raised"
        ELSE [returned EXCEPT !.owner = 0] = whole.data /\ persisted = whole.document

\* what one attempt of get_entities ends with: the answer, the document
\* at entities_file afterwards and the number of parsers constructed
Attempt(answer, document, parsers) ==
  [answer |-> answer, document |-> document, parsers |-> parsers]

\* try: result = parse_terraform(path, entities_file); return 200 with it
\* except: `otherwise'
Answered(parsed, source, parsers, otherwise) ==
  IF parsed.raised THEN otherwise
  ELSE Attempt(Response(200, source, parsed.data), parsed.document, parsers + 1)

\* the last resort of get_entities: ./terraform
TryOld(parsers) ==
  IF site.old.exists
  THEN Answered(ApiParseTerraform(site.old.files), Source("default", 0), parsers,
                Attempt(Response(500, Source("none", 0), NoResult), persisted, parsers + 1))
  ELSE Attempt(Response(404, Source("none", 0), NoResult), persisted, parsers)

\* a fallback to the test data whose failure ends the request
TryTestFatal(parsers) ==
  IF site.test.exists
  THEN Answered(ApiParseTerraform(site.test.files), Source("test-data", 0), parsers,
                Attempt(Response(500, Source("none", 0), NoResult), persisted, parsers + 1))
  ELSE TryOld(parsers)

\* the fallback to /app/test-terraform
TryTest(parsers) ==
  IF site.test.exists
  THEN Answered(ApiParseTerraform(site.test.files), Source("test-data", 0), parsers,
                TryOld(parsers + 1))
  ELSE TryOld(parsers)

\* for path in scan_paths: from the i-th path on
RECURSIVE TryScan(_, _)
TryScan(i, parsers) ==
  IF i > Len(site.scan) THEN TryTest(parsers)
  ELSE IF site.scan[i].exists
       THEN Answered(ApiParseTerraform(site.scan[i].files), Source("scan", i), parsers,
                     TryScan(i + 1, parsers + 1))
       ELSE TryScan(i + 1, parsers)

\* a handler that parses on every request, cache or not
GetEntitiesReparsing ==
  /\ todo = <<>>
  /\ calls < MaxCalls
  /\ calls' = calls + 1
  /\ op' = "get_entities"
  /\ \E attempt \in {TryScan(1, 0)} :
        /\ response' = attempt.answer
        /\ persisted' = attempt.document
        /\ parserId' = parserId + attempt.parsers
  /\ UNCHANGED <<processVars, dir, dirKind, probeVars, site, uploads, requests, loopVars,
                 entities, relationships, firstResult, parseCount, todo, result, held,
                 returned>>

\* GET /api/entities: parse from the first location that works when
\* entities_file does not exist, otherwise json.load of entities_file,
\* which can fail
GetEntities ==
  /\ todo = <<>>
  /\ calls < MaxCalls
  /\ calls' = calls + 1
  /\ op' = "get_entities"
  /\ IF persisted.kind = "none"
     THEN \E attempt \in {TryScan(1, 0)} :
             /\ response' = attempt.answer
             /\ persisted' = attempt.document
             /\ parserId' = parserId + attempt.parsers
     ELSE /\ \E readable \in BOOLEAN :
                response' = (IF readable THEN Response(200, Source("cache", 0), persisted)
                             ELSE Response(500, Source("none", 0), NoResult))
          /\ UNCHANGED <<persisted, parserId>>
  /\ UNCHANGED <<processVars, dir, dirKind, probeVars, site, uploads, requests, loopVars,
                 entities, relationships, firstResult, parseCount, todo, result, held,
                 returned>>

\* the locations of the served file system: a missing path, a directory
\* that parses and a directory with a misshapen block
Locations == {Absent, Location(TRUE, <<Files[2]>>), Location(TRUE, <<Files[4]>>)}

Sites ==
  {[scan |-> scan, test |-> test, old |-> old] :
     scan \in SeqsUpTo(Locations, MaxScanPaths) \ {<<>>},
     test \in Locations, old \in Locations}

InitEntities ==
  /\ hashSeed \in {0, 1}
  /\ dirKind = "dir"
  /\ dir = <<File("ok", <<bA, bB>>)>>
  /\ probe = NoProbe
  /\ resolved = NotResolved
  /\ InitParser
  /\ site \in Sites
  /\ response = NoResponse
  /\ uploads = <<>>
  /\ requests = [r \in Requests |-> Request("idle", <<>>, 0, NoResponse)]

NextEntities ==
  \/ GetEntities
  \/ CallApiParseDirectory
  \/ Construct
  \/ Layout
  \/ StartParse
  \/ ExtractBlock
  \/ EndFile
  \/ BuildResult
  \/ Write
  \/ Hold
  \/ ReturnHeld

SpecEntities == InitEntities /\ [][NextEntities]_vars

\* ------------------------------------------------------------------------
\* POST /api/parse, statement by statement, for requests served at once
\* ------------------------------------------------------------------------
sTf == <<".","t","f">>
nMain == <<"m","a","i","n">> \o sTf
nNet == <<"n","e","t">> \o sTf
nNotes == <<"n","o","t","e","s",".","t","x","t">>

\* file.filename.endswith(".tf")
EndsWith(name, suffix) ==
  Len(name) >= Len(suffix) /\ HasLit(name, Len(name) - Len(suffix) + 1, suffix)

\* one part of a multipart body: the file name and what the file holds
Upload(name, file) == [name |-> name, file |-> file]

\* the multipart bodies: request.files.getlist("files")
Bodies ==
  { <<Upload(nMain, Files[1])>>,
    <<Upload(nNet, Files[2])>>,
    <<Upload(nMain, Files[2]), Upload(nNotes, Files[1])>>,
    <<Upload(nMain, Files[4])>> }

\* file.save(temp_dir / file.filename): a file of that name is replaced
Saved(stored, u) ==
  IF \E i \in 1..Len(stored) : stored[i].name = u.name
  THEN [i \in 1..Len(stored) |-> IF stored[i].name = u.name THEN u ELSE stored[i]]
  ELSE Append(stored, u)

\* the orders in which rglob can list n files
Orders(n) == {q \in [1..n -> 1..n] : \A i, j \in 1..n : q[i] = q[j] => i = j}

Listed(stored, order) == [i \in 1..Len(stored) |-> stored[order[i]].file]

\* the request arrives: 400 without a "files" part or with an empty list
Begin(r) ==
  /\ requests[r].pc = "idle"
  /\ \/ \E body \in Bodies :
          requests' = [requests EXCEPT ![r] = Request("save", body, 0, NoResponse)]
     \/ requests' = [requests EXCEPT ![r] =
                       Request("done", <<>>, 0, Response(400, Source("none", 0), NoResult))]
  /\ UNCHANGED <<processVars, dir, dirKind, probeVars, site, response, uploads, parserVars,
                 loopVars, op, todo, result, held, returned, persisted, calls>>

\* one iteration of `for file in files': only .tf names are saved
SaveFile(r) ==
  /\ requests[r].pc = "save"
  /\ requests[r].saved < Len(requests[r].files)
  /\ LET u == requests[r].files[requests[r].saved + 1]
     IN uploads' = (IF EndsWith(u.name, sTf) THEN Saved(uploads, u) ELSE uploads)
  /\ requests' = [requests EXCEPT ![r].saved = @ + 1]
  /\ UNCHANGED <<processVars, dir, dirKind, probeVars, site, response, parserVars,
                 loopVars, op, todo, result, held, returned, persisted, calls>>

\* result = parse_terraform(str(temp_dir), output_path) over whatever
\* work/uploads holds now; an exception answers 500
ParseUploads(r) ==
  /\ requests[r].pc = "save"
  /\ requests[r].saved = Len(requests[r].files)
  /\ \E order \in Orders(Len(uploads)) :
        \E parsed \in {ApiParseTerraform(Listed(uploads, order))} :
           IF parsed.raised
           THEN /\ requests' = [requests EXCEPT ![r].pc = "cleanup",
                                   ![r].answer = Response(500, Source("none", 0), NoResult)]
                /\ UNCHANGED persisted
           ELSE /\ requests' = [requests EXCEPT ![r].pc = "cleanup",
                                   ![r].answer = Response(200, Source("uploads", r),
                                                          parsed.data)]
                /\ persisted' = parsed.document
  /\ parserId' = parserId + 1
  /\ UNCHANGED <<processVars, dir, dirKind, probeVars, site, response, uploads, loopVars,
                 entities, relationships, firstResult, parseCount, op, todo, result, held,
                 returned, calls>>

\* finally: every *.tf under work/uploads is unlinked
Cleanup(r) ==
  /\ requests[r].pc = "cleanup"
  /\ uploads' = <<>>
  /\ requests' = [requests EXCEPT ![r].pc = "done"]
  /\ UNCHANGED <<processVars, dir, dirKind, probeVars, site, response, parserVars,
                 loopVars, op, todo, result, held, returned, persisted, calls>>

InitUploads ==
  /\ hashSeed \in {0, 1}
  /\ dirKind = "dir"
  /\ dir = <<>>
  /\ probe = NoProbe
  /\ resolved = NotResolved
  /\ InitParser
  /\ NoService

NextUploads ==
  \E r \in Requests :
     \/ Begin(r)
     \/ SaveFile(r)
     \/ ParseUploads(r)
     \/ Cleanup(r)

SpecUploads == InitUploads /\ [][NextUploads]_vars

SomeFileFails == \E i \in 1..Len(dir) : dir[i].load = "syntax"
SomeFileLoads == \E i \in 1..Len(dir) : dir[i].load = "ok"

\* the operation has returned to its caller
Returned(name) == op = name /\ todo = <<>>

\* ------------------------------------------------------------------------
\* C1: when parse_directory has returned for a directory whose loading
\* files are well formed, it has not raised, total_files counts every
\* discovered file, the failed ones included, and the entities and
\* relationships are those that the loading files alone contribute to the
\* registry and the list the call started with.
\* ------------------------------------------------------------------------
C1_FailedFilesIsolated ==
  (Returned("parse_directory") /\ WellShaped(dir)) =>
     LET expected == Contributed(startEntities, startRelationships, LoadedBlocks(dir))
     IN /\ returned.kind = "result"
        /\ returned.metadata.total_files = Len(dir)
        /\ returned.entities = expected.entities
        /\ returned.relationships = expected.relationships

C1_Witness ==
  /\ Returned("parse_directory")
  /\ returned.kind = "result"
  /\ SomeFileFails
  /\ SomeFileLoads
  /\ returned.metadata.total_files = 2
  /\ Len(returned.entities) > 0
  /\ Len(returned.relationships) > 0

SameGraph(r1, r2) ==
  /\ r1.entities = r2.entities
  /\ r1.relationships = r2.relationships
  /\ r1.metadata = r2.metadata

\* ------------------------------------------------------------------------
\* C2: the result of the latest parse_directory call of a parser has the
\* same entities, relationships and metadata as the result of the first
\* call of that parser (the directory does not change).
\* ------------------------------------------------------------------------
C2_RebuiltOnEachCall ==
  (result.kind = "result" /\ result.owner = parserId /\ firstResult.kind = "result") =>
     SameGraph(result, firstResult)

\* ------------------------------------------------------------------------
\* C3: when either parse_terraform helper has returned a result, the
\* document persisted at output_path has the same entities, relationships
\* and metadata as the returned result.
\* ------------------------------------------------------------------------
C3_PersistedIsReturned ==
  ((Returned("parse_terraform") \/ Returned("api_parse_terraform"))
     /\ returned.kind = "result") =>
     /\ persisted.kind = "result"
     /\ SameGraph(persisted, returned)

\* ------------------------------------------------------------------------
\* C4: in every result handed to a caller, at the moment the operation
\* returns, total_entities is the number of entities and
\* total_relationships is the number of relationships.
\* ------------------------------------------------------------------------
C4_MetadataCounts ==
  (todo = <<>> /\ returned.kind = "result") =>
     /\ returned.metadata.total_entities = Len(returned.entities)
     /\ returned.metadata.total_relationships = Len(returned.relationships)

\* ------------------------------------------------------------------------
\* C5: in every result of parse_directory the ids of the entities are
\* pairwise distinct.
\* ------------------------------------------------------------------------
C5_UniqueIds ==
  result.kind = "result" =>
     \A i, j \in 1..Len(result.entities) :
        result.entities[i].id = result.entities[j].id => i = j

\* the blocks of `blocks' that declare the identifier id
Declarations(blocks, id) == {i \in 1..Len(blocks) : EntityId(blocks[i]) = id}

Redeclared(blocks) ==
  \E i, j \in 1..Len(blocks) : i < j /\ EntityId(blocks[i]) = EntityId(blocks[j])

C5_Witness ==
  /\ result.kind = "result"
  /\ Redeclared(LoadedBlocks(dir))
  /\ parseCount >= 2
  /\ Len(result.entities) >= 4

Max(S) == CHOOSE x \in S : \A y \in S : y <= x

\* the declaration of id that a scan of `files' meets last
LastDeclaration(files, id) ==
  LoadedBlocks(files)[Max(Declarations(LoadedBlocks(files), id))]

\* ------------------------------------------------------------------------
\* C6: last write wins: every entity of a result carries the attributes
\* and the dependencies of the declaration of its identifier that comes
\* last in the scan order of the files.
\* ------------------------------------------------------------------------
C6_LastWriteWins ==
  result.kind = "result" =>
     \A i \in 1..Len(result.entities) :
        LET e == result.entities[i]
        IN /\ Declarations(LoadedBlocks(dir), e.id) # {}
           /\ e.attributes = LastDeclaration(dir, e.id).config
           /\ e.dependencies = BlockDeps(LastDeclaration(dir, e.id), hashSeed).deps

C6_Witness ==
  /\ result.kind = "result"
  /\ Len(dir) = 2
  /\ \E i \in 1..Len(result.entities) :
       LET e == result.entities[i]
           decls == Declarations(LoadedBlocks(dir), e.id)
       IN /\ Cardinality(decls) = 2
          /\ \E k \in decls :
               /\ LoadedBlocks(dir)[k].config # e.attributes
               /\ BlockDeps(LoadedBlocks(dir)[k], hashSeed).deps # e.dependencies

\* ------------------------------------------------------------------------
\* C7: in every state of the parser the source of every relationship is
\* the id of an entity of the registry.
\* ------------------------------------------------------------------------
C7_SourceRegistered ==
  \A i \in 1..Len(relationships) :
     \E j \in 1..Len(entities) : entities[j].id = relationships[i].source

C7_Witness ==
  /\ phase = "loop"
  /\ blockIdx > 1
  /\ parseCount >= 1
  /\ Len(relationships) > Len(startRelationships)

IsPrefix(xs, ys) == Len(xs) <= Len(ys) /\ SubSeq(ys, 1, Len(xs)) = xs

\* every dependency of every registered entity has its relationship
DependenciesHaveEdges ==
  \A j \in 1..Len(entities) :
     \A k \in 1..Len(entities[j].dependencies) :
        \E i \in 1..Len(relationships) :
           /\ relationships[i].source = entities[j].id
           /\ relationships[i].target = entities[j].dependencies[k]

\* ------------------------------------------------------------------------
\* C8: dangling references are preserved: every dependency identifier of
\* an entity has a relationship with that target, whether or not an
\* entity with that identifier exists, and a parser never removes a
\* relationship from its list.
\* ------------------------------------------------------------------------
C8_DanglingPreserved ==
  /\ []DependenciesHaveEdges
  /\ [][parserId' = parserId => IsPrefix(relationships, relationships')]_vars

sLocalZ == sLocal \o Dot \o cZ

C8_Witness ==
  /\ result.kind = "result"
  /\ \E j \in 1..Len(entities) : sLocalZ \in Range(entities[j].dependencies)
  /\ \E i \in 1..Len(result.relationships) : result.relationships[i].target = sLocalZ
  /\ \A j \in 1..Len(result.entities) : result.entities[j].id # sLocalZ

\* str.split(".")
RECURSIVE SplitDots(_)
SplitDots(t) ==
  IF \A i \in 1..Len(t) : t[i] # "." THEN <<t>>
  ELSE LET d == CHOOSE i \in 1..Len(t) : t[i] = "." /\ \A j \in 1..(i - 1) : t[j] # "."
       IN <<SubSeq(t, 1, d - 1)>> \o SplitDots(SubSeq(t, d + 1, Len(t)))

IsWordString(w) == Len(w) > 0 /\ \A i \in 1..Len(w) : IsWord(w[i])

\* resource.<type>.<name>, data.<type>.<name>, module.<name>, var.<name>,
\* local.<name> or output.<name>
WellFormedId(id) ==
  LET parts == SplitDots(id)
  IN \/ /\ Len(parts) = 3
        /\ parts[1] \in {sResource, sData}
        /\ IsWordString(parts[2])
        /\ IsWordString(parts[3])
     \/ /\ Len(parts) = 2
        /\ parts[1] \in {sModule, sVar, sLocal, sOutput}
        /\ IsWordString(parts[2])

\* ------------------------------------------------------------------------
\* C9: every relationship target and every entry of an entity's
\* dependencies is a well-formed canonical identifier, the entries that
\* come from depends_on included.
\* ------------------------------------------------------------------------
C9_TargetsWellFormed ==
  /\ \A i \in 1..Len(relationships) : WellFormedId(relationships[i].target)
  /\ \A j \in 1..Len(entities) :
       \A k \in 1..Len(entities[j].dependencies) :
          WellFormedId(entities[j].dependencies[k])

EdgeKindMatches(ents, rels) ==
  \A i \in 1..Len(rels) :
     \A j \in 1..Len(ents) :
        ents[j].id = rels[i].source =>
           rels[i].type = (IF ents[j].category = "output" THEN "references" ELSE "depends_on")

\* ------------------------------------------------------------------------
\* C10: every relationship whose source is an output entity has type
\* references and every relationship whose source is an entity of another
\* category has type depends_on, in the registry and in every result.
\* ------------------------------------------------------------------------
C10_EdgeKindByCategory ==
  /\ EdgeKindMatches(entities, relationships)
  /\ result.kind = "result" => EdgeKindMatches(result.entities, result.relationships)

C10_Witness ==
  /\ result.kind = "result"
  /\ \E i, j \in 1..Len(result.relationships) :
       /\ result.relationships[i].type = "references"
       /\ result.relationships[j].type = "depends_on"
  /\ \E i, j, k \in 1..Len(result.entities) :
       /\ result.entities[i].category = "output"
       /\ result.entities[j].category = "module"
       /\ result.entities[k].category = "resource"
       /\ result.entities[i].dependencies # <<>>
       /\ result.entities[j].dependencies # <<>>
       /\ result.entities[k].dependencies # <<>>

\* parse_directory returned a GraphResult
Extracted == Returned("parse_directory") /\ returned.kind = "result"

\* ------------------------------------------------------------------------
\* C11: no entity's dependencies contain the entity's own id and no
\* relationship has its source equal to its target, also for a block whose
\* body mentions the block itself.
\* ------------------------------------------------------------------------
C11_NoSelfDependency ==
  /\ \A i \in 1..Len(entities) : entities[i].id \notin Range(entities[i].dependencies)
  /\ \A i \in 1..Len(relationships) : relationships[i].source # relationships[i].target

\* ------------------------------------------------------------------------
\* C12: variable and provider entities have an empty dependencies list
\* and are never the source of a relationship, whatever their body holds.
\* ------------------------------------------------------------------------
C12_VariablesAndProvidersAreLeaves ==
  \A i \in 1..Len(entities) :
     entities[i].category \in {"variable", "provider"} =>
        /\ entities[i].dependencies = <<>>
        /\ \A j \in 1..Len(relationships) : relationships[j].source # entities[i].id

\* a variable or provider whose body holds references was registered
C12_Witness ==
  /\ Extracted
  /\ \E i \in 1..Len(returned.entities) :
       /\ returned.entities[i].category \in {"variable", "provider"}
       /\ returned.entities[i].id = EntityId(TheBlock)
       /\ ~ExtractDependencies(TheBlock.config, hashSeed).err
       /\ ExtractDependencies(TheBlock.config, hashSeed).deps # <<>>

\* the entries of a mapping other than those under `key'
Without(entries, key) == SelectSeq(entries, LAMBDA e : e.k # key)

\* the values of the entries of a mapping
Values(entries) == [i \in 1..Len(entries) |-> entries[i].v]

\* the entity that TheBlock declares, as returned
RECURSIVE EntityOf(_, _)
EntityOf(ents, id) ==
  IF ents = <<>> THEN [id |-> <<>>, dependencies |-> <<>>]
  ELSE IF Head(ents).id = id THEN Head(ents) ELSE EntityOf(Tail(ents), id)

\* the body of TheBlock is a mapping whose depends_on, if any, is a list
ListDependsOn(config) ==
  /\ config.tag = "map"
  /\ HasKey(config.entries, sDependsOn) => GetKey(config.entries, sDependsOn).tag = "list"

\* ------------------------------------------------------------------------
\* C13: for a resource, data source or module block the dependency set is
\* the string entries of depends_on as written, united with what is
\* resolved from the attributes other than depends_on; the depends_on
\* entries are not themselves resolved.
\* ------------------------------------------------------------------------
C13_DependsOnTakenAsWritten ==
  (/\ Extracted
   /\ TheBlock.category \in {"resource", "data", "module"}
   /\ ListDependsOn(TheBlock.config))
  => LET entries == TheBlock.config.entries
         written == IF HasKey(entries, sDependsOn)
                    THEN StrItems(GetKey(entries, sDependsOn).items) ELSE <<>>
         others == ScanValues(Without(entries, sDependsOn), hashSeed).deps
     IN Range(EntityOf(returned.entities, EntityId(TheBlock)).dependencies)
          = Range(written) \cup Range(others)

\* the texts found in a sequence of values at any depth of mappings and
\* sequences
RECURSIVE StringLeaves(_)
StringLeaves(vals) ==
  IF vals = <<>> THEN <<>>
  ELSE LET v == Head(vals)
       IN (CASE v.tag = "str" -> <<v.s>>
             [] v.tag = "map" -> StringLeaves(Values(v.entries))
             [] v.tag = "list" -> StringLeaves(v.items)
             [] OTHER -> <<>>)
          \o StringLeaves(Tail(vals))

\* ------------------------------------------------------------------------
\* C14: resolution descends through mappings and sequences of any
\* nesting: the dependencies of a block without depends_on are the
\* references of all texts found at any depth of its body, a text inside
\* a sequence inside a sequence included; numbers and booleans add nothing.
\* ------------------------------------------------------------------------
C14_AnyNesting ==
  (/\ Extracted
   /\ TheBlock.category \in {"resource", "data", "module", "output"}
   /\ TheBlock.config.tag = "map"
   /\ ~HasKey(TheBlock.config.entries, sDependsOn))
  => LET leaves == StringLeaves(Values(TheBlock.config.entries))
     IN Range(EntityOf(returned.entities, EntityId(TheBlock)).dependencies)
          = UNION {Range(FindReferences(leaves[i], hashSeed)) : i \in 1..Len(leaves)}

\* ------------------------------------------------------------------------
\* C15: for a text that consists of exactly one reference, bare or in an
\* interpolation, _find_references returns the one canonical identifier
\* of the reference's class and nothing else; a data reference whose type
\* starts with aws_, azurerm_ or google_ yields only the data identifier.
\* ------------------------------------------------------------------------
C15_OneReferenceOneIdentifier ==
  (resolved.done /\ probe.form \in {"bare", "interpolated"})
     => resolved.refs = <<probe.canon>>

\* ------------------------------------------------------------------------
\* C16: dependency resolution is total: whenever _extract_dependencies is
\* applied to the body of a block, whatever the body is built from and
\* whatever its depends_on holds, it returns a set and does not raise.
\* ------------------------------------------------------------------------
C16_ResolutionTotal ==
  (/\ InFile
   /\ blockIdx <= Len(CurrentBlocks)
   /\ CurrentBlocks[blockIdx].category \notin {"variable", "provider"})
  => ~ExtractDependencies(CurrentBlocks[blockIdx].config, hashSeed).err

\* ------------------------------------------------------------------------
\* C17: a block whose body does not have the shape of a mapping is not
\* fatal: parse_directory does not raise, and it returns a result that
\* counts every file of the directory.
\* ------------------------------------------------------------------------
C17_MisshapenBlockIsSkipped ==
  /\ returned.kind # "raised"
  /\ (Returned("parse_directory") /\ calls > 0) =>
        /\ returned.kind = "result"
        /\ returned.metadata.total_files = Len(dir)

\* ------------------------------------------------------------------------
\* C18: extraction on a path that does not exist or is not a directory
\* fails: no GraphResult is returned, the service answers 404 and no
\* document is persisted.
\* ------------------------------------------------------------------------
C18_DirectoryNotFound ==
  dirKind # "dir" =>
     /\ returned.kind # "result"
     /\ persisted = NoResult
     /\ (Returned("parse_terraform_directory") /\ calls > 0 /\ returned.kind # "400")
           => returned.kind = "404"

\* ------------------------------------------------------------------------
\* C19: two extractions on fresh parsers over the same directory, files
\* enumerated in the same order, give identical GraphResults: the same
\* entities in the same order, each with its dependencies in the same
\* order, and the same relationships in the same order.
\* ------------------------------------------------------------------------
C19_Deterministic ==
  (/\ earlier.kind = "result"
   /\ Returned("parse_terraform")
   /\ returned.kind = "result")
  => persisted = earlier

\* the identifier that a declaration is known by
ExpectedId(b) ==
  CASE b.category = "resource" -> sResource \o Dot \o b.type \o Dot \o b.name
    [] b.category = "data" -> sData \o Dot \o b.type \o Dot \o b.name
    [] b.category = "module" -> sModule \o Dot \o b.name
    [] b.category = "variable" -> sVar \o Dot \o b.name
    [] b.category = "output" -> sOutput \o Dot \o b.name
    [] b.category = "provider" -> sProvider \o Dot \o b.name

\* the part of a type label before its first underscore
PrefixToken(type) ==
  LET underscores == {i \in 1..Len(type) : type[i] = "_"}
      first == IF underscores = {} THEN Len(type) + 1
               ELSE CHOOSE i \in underscores : \A j \in underscores : i <= j
  IN SubSeq(type, 1, first - 1)

ExpectedProvider(b) ==
  CASE b.category \in {"resource", "data"} -> Some(PrefixToken(b.type))
    [] b.category = "provider" -> Some(b.name)
    [] OTHER -> None

Declared(ents, b) ==
  \E i \in 1..Len(ents) :
     /\ ents[i].id = ExpectedId(b)
     /\ ents[i].category = b.category
     /\ ents[i].name = b.name
     /\ ents[i].provider = ExpectedProvider(b)

\* ------------------------------------------------------------------------
\* C20: every block declared in a file that loads yields an entity whose
\* id is resource.<type>.<name>, data.<type>.<name>, module.<name>,
\* var.<name>, output.<name> or provider.<name> by its category, whose
\* category and name are the declared ones, and whose provider is the
\* type's first underscore-delimited token for resource and data, the
\* name for a provider, and absent for module, variable and output.
\* ------------------------------------------------------------------------
C20_EveryBlockYieldsItsEntity ==
  returned.kind = "result" =>
     \A i \in 1..Len(LoadedBlocks(dir)) : Declared(returned.entities, LoadedBlocks(dir)[i])

\* a result for a directory that declares blocks of all six categories
C20_Witness ==
  /\ returned.kind = "result"
  /\ \A c \in Range(Categories) :
        /\ \E i \in 1..Len(LoadedBlocks(dir)) : LoadedBlocks(dir)[i].category = c
        /\ \E i \in 1..Len(returned.entities) : returned.entities[i].category = c

HasRelationship(rels, source, target, type) ==
  \E i \in 1..Len(rels) : rels[i] = [source |-> source, target |-> target, type |-> type]

\* ------------------------------------------------------------------------
\* C21: for one file declaring a resource a without references, a
\* resource b with an attribute that names a in shorthand dotted form and
\* an output x whose value names b, parse_directory yields exactly three
\* entities, a depends_on relationship from b to a and a references
\* relationship from output.x to resource.<type>.b.
\* ------------------------------------------------------------------------
C21_ThreeEntitiesTwoEdges ==
  Extracted =>
     LET a == ExpectedId(ScenarioBlock(cA))
         b == ExpectedId(ScenarioBlock(cB))
         x == ExpectedId(ScenarioBlock(cX))
     IN /\ Len(returned.entities) = 3
        /\ {returned.entities[i].id : i \in 1..3} = {a, b, x}
        /\ HasRelationship(returned.relationships, b, a, "depends_on")
        /\ HasRelationship(returned.relationships, x, b, "references")
        /\ parseCount = 1 => Len(returned.relationships) = 2

\* the first parse_directory of a parser over the scenario returned, the
\* output written before the resources in the text
C21_Witness ==
  /\ Extracted
  /\ parseCount = 1
  /\ dir[1].blocks[1].category = "output"
  /\ Len(returned.relationships) = 2

\* ------------------------------------------------------------------------
\* C22: parse_directory on a directory that holds no .tf file returns no
\* entities, no relationships and metadata whose three counts are 0.
\* ------------------------------------------------------------------------
C22_EmptyDirectory ==
  (Returned("parse_directory") /\ calls > 0 /\ dirKind = "dir" /\ dir = <<>>) =>
     /\ returned.kind = "result"
     /\ returned.entities = <<>>
     /\ returned.relationships = <<>>
     /\ returned.metadata =
          [total_files |-> 0, total_entities |-> 0, total_relationships |-> 0]

C22_Witness == Extracted /\ dirKind = "dir" /\ dir = <<>> /\ calls = MaxCalls

\* where a category is first met in the registry
FirstSeen(ents, cat) ==
  CHOOSE i \in 1..Len(ents) :
     ents[i].category = cat /\ \A j \in 1..(i - 1) : ents[j].category # cat

\* the categories first met before the category of the i-th entity
EarlierCategories(ents, i) ==
  {ents[j].category : j \in 1..(FirstSeen(ents, ents[i].category) - 1)}

\* the entities of the category of the i-th entity that precede it
EarlierOfCategory(ents, i) == {j \in 1..(i - 1) : ents[j].category = ents[i].category}

\* ------------------------------------------------------------------------
\* C23: after calculate_layout every entity of the registry has an
\* integer position: the k-th category in first-seen order (from 0) lies
\* at x = 250*k and the i-th entity of a category (from 0, in registry
\* order) at y = 150*i, so no two entities share a position.
\* ------------------------------------------------------------------------
C23_GridLayout ==
  (Returned("calculate_layout") /\ calls > 0) =>
     /\ \A i \in 1..Len(entities) :
           /\ entities[i].position.some
           /\ entities[i].position.x \in Nat
           /\ entities[i].position.y \in Nat
           /\ entities[i].position.x = 250 * Cardinality(EarlierCategories(entities, i))
           /\ entities[i].position.y = 150 * Cardinality(EarlierOfCategory(entities, i))
     /\ \A i, j \in 1..Len(entities) :
           i # j => entities[i].position # entities[j].position

\* a registry of three categories or more, one of them with two entities,
\* was laid out
C23_Witness ==
  /\ Returned("calculate_layout")
  /\ Cardinality({entities[i].category : i \in 1..Len(entities)}) >= 3
  /\ \E i, j \in 1..Len(entities) :
        /\ EarlierOfCategory(entities, i) # {}
        /\ Cardinality(EarlierCategories(entities, j)) >= 2
        /\ entities[i].position.some
        /\ entities[j].position.some

\* an entity without its position
Unpositioned(e) == [e EXCEPT !.position = NoPosition]

LayoutKeepsGraph ==
  /\ Len(entities') = Len(entities)
  /\ \A i \in 1..Len(entities) : Unpositioned(entities'[i]) = Unpositioned(entities[i])
  /\ relationships' = relationships

\* ------------------------------------------------------------------------
\* C24: calculate_layout changes only the position field: the entity ids,
\* every entity's type, category, name, provider, attributes and
\* dependencies, and the relationship list are the same after the call as
\* before it.
\* ------------------------------------------------------------------------
C24_LayoutOnlyPositions == [][Doing("layout") => LayoutKeepsGraph]_vars

\* a registry with dependencies and relationships was laid out
C24_Witness ==
  /\ Returned("calculate_layout")
  /\ relationships # <<>>
  /\ \E i \in 1..Len(entities) :
        entities[i].position.some /\ entities[i].dependencies # <<>>

\* the relationships of the entities of a result mirror their dependencies
RelationsMatchDependencies(ents, rels) ==
  /\ \A i \in 1..Len(rels) : \A j \in 1..Len(ents) :
        ents[j].id = rels[i].source => rels[i].target \in Range(ents[j].dependencies)
  /\ \A i, j \in 1..Len(rels) :
        (i # j) => <<rels[i].source, rels[i].target>> # <<rels[j].source, rels[j].target>>
  /\ \A j \in 1..Len(ents) : \A t \in Range(ents[j].dependencies) :
        \E i \in 1..Len(rels) : rels[i].source = ents[j].id /\ rels[i].target = t

\* ------------------------------------------------------------------------
\* C27: in every result, also after files that redeclare an identifier,
\* the relationships whose source is an entity are exactly one per
\* identifier of that entity's dependencies: none has a target missing
\* from the dependencies, and no (source, target) pair appears twice.
\* ------------------------------------------------------------------------
C27_OneRelationshipPerDependency ==
  returned.kind = "result" =>
     RelationsMatchDependencies(returned.entities, returned.relationships)

\* ------------------------------------------------------------------------
\* C28: a reference in an interpolation, with literal text before or
\* after it that holds no reference, resolves to exactly what the bare
\* reference resolves to; the text after the closing delimiter never
\* becomes part of the name.
\* ------------------------------------------------------------------------
C28_InterpolationUniform ==
  (resolved.done /\ probe.form \in {"interpolated", "trailing", "leading"})
     => Range(resolved.refs) = Range(FindReferences(probe.ref, hashSeed))

\* ------------------------------------------------------------------------
\* C29: every entity of the document that save_to_json persists carries
\* a position assigned by calculate_layout.
\* ------------------------------------------------------------------------
C29_PersistedPositions ==
  persisted.kind = "result" =>
     \A i \in 1..Len(persisted.entities) : persisted.entities[i].position.some

\* the locations get_entities goes through, in its order: the scan paths,
\* the test data, ./terraform
Fallbacks == site.scan \o <<site.test, site.old>>

Parses(location) == location.exists /\ WellShaped(location.files)

\* the first location that exists and parses, 0 when there is none
FirstParsing ==
  IF \E i \in 1..Len(Fallbacks) : Parses(Fallbacks[i])
  THEN CHOOSE i \in 1..Len(Fallbacks) :
          Parses(Fallbacks[i]) /\ \A j \in 1..(i - 1) : ~Parses(Fallbacks[j])
  ELSE 0

\* the answer that names the i-th location of Fallbacks
AnswerFrom(i) ==
  Response(200,
           IF i <= Len(site.scan) THEN Source("scan", i)
           ELSE IF i = Len(site.scan) + 1 THEN Source("test-data", 0)
           ELSE Source("default", 0),
           ApiParseTerraform(Fallbacks[i].files).data)

\* a GET /api/entities was answered in the step
Got == op' = "get_entities" /\ calls' = calls + 1

FallbackOrder ==
  (Got /\ persisted.kind = "none") =>
     /\ FirstParsing # 0 => response' = AnswerFrom(FirstParsing)
     /\ (FirstParsing = 0 /\ site.old.exists) => response'.status = 500
     /\ response'.status = 404 <=> (FirstParsing = 0 /\ ~site.old.exists)

\* ------------------------------------------------------------------------
\* C25: without a cache file, GET /api/entities tries the scan paths in
\* their order, then the test data, then ./terraform, and answers with
\* the result of the first location that exists and parses; a failure at
\* ./terraform answers 500, and the answer is 404 exactly when nothing
\* earlier succeeded and ./terraform does not exist.
\* ------------------------------------------------------------------------
C25_FallbackOrder == [][FallbackOrder]_vars

\* a request was answered from the second scan path after the first one
\* failed to parse
C25_Witness ==
  /\ op = "get_entities"
  /\ response.status = 200
  /\ response.source = Source("scan", 2)
  /\ site.scan[1].exists

CacheServed ==
  (Got /\ persisted.kind # "none") =>
     /\ response'.status \in {200, 500}
     /\ response'.status = 200 => response'.data = persisted
     /\ response'.status = 500 => response'.data = NoResult
     /\ parserId' = parserId
     /\ persisted' = persisted

\* ------------------------------------------------------------------------
\* C26: whenever the cache file exists, GET /api/entities answers with
\* the persisted document and constructs no parser; a failure to read
\* the cache answers 500 and does not fall back to parsing.
\* ------------------------------------------------------------------------
C26_CacheServed == [][CacheServed]_vars

\* the cache written by POST /api/parse-directory was served
C26_Witness ==
  /\ op = "get_entities"
  /\ response = Response(200, Source("cache", 0), persisted)
  /\ persisted = ApiParseTerraform(dir).document
  /\ calls = 2

\* the .tf files of the body of request r
OwnFiles(r) == SelectSeq(requests[r].files, LAMBDA u : EndsWith(u.name, sTf))

\* the data of a 200 answer comes from the request's own .tf files
OwnData(r) ==
  requests[r].answer.status = 200 =>
     \E order \in Orders(Len(OwnFiles(r))) :
        requests[r].answer.data = ApiParseTerraform(Listed(OwnFiles(r), order)).data

\* what the request has saved and not yet parsed is still in work/uploads
StillSaved(r) ==
  requests[r].pc = "save" =>
     \A i \in 1..requests[r].saved :
        EndsWith(requests[r].files[i].name, sTf) =>
           \E j \in 1..Len(uploads) : uploads[j].name = requests[r].files[i].name

\* ------------------------------------------------------------------------
\* C30: two POST /api/parse requests share no mutable state: under any
\* interleaving the data of each answer is derived only from the .tf
\* files uploaded in that request, and neither request's cleanup removes
\* files that the other has saved and not yet parsed.
\* ------------------------------------------------------------------------
C30_RequestsIsolated == \A r \in Requests : OwnData(r) /\ StillSaved(r)

====
